---------------------------- MODULE Spec2Model ----------------------------
(***************************************************************************)
(* A model of src/.deno/adapters/adapters.ts of pg-mem: the placeholder    *)
(* substitution replaceQueryArgs$, the node-postgres facade (MemPg), the   *)
(* pg-native facade (Client) and its cache of prepared statements.         *)
(*                                                                         *)
(* Texts (SQL, literals, tokens) are sequences of one-character strings,   *)
(* so that scanning them is something the model does, not assumes.         *)
(***************************************************************************)
EXTENDS Integers, Sequences, FiniteSets, TLC

VARIABLES
    sql,        \* replaceQueryArgs$: the text handed to the call under study
    values,     \* replaceQueryArgs$: the argument list handed to it
    out,        \* replaceQueryArgs$: what the call produced (NoResult before)
    now,        \* the clock, in milliseconds
    timers,     \* the pending timers of the event loop, in the order they were set
    calls,      \* the facade calls made so far, each with what its caller has seen
    delivered,  \* the calls whose deferred completion has run, in that order
    max,        \* the capacity the cache of prepared statements is made with
    prepared,   \* the cache of prepared statements, most recently used first
    last,       \* the last prepareSync or executeSync that ran, and what it saw
    lastPrepare,\* history: per name, its most recent prepare
    recency,    \* history: the names by their last use, most recent last
    connected,  \* the connected flag of the slonik pool client
    servers,    \* the bindServer calls made so far, each with its listener
    sessions    \* the Sessions attached so far, each with its socket

substVars == <<sql, values, out>>
loopVars == <<now, timers, calls, delivered>>
cacheVars == <<max, prepared, last, lastPrepare, recency>>
envVars == <<connected, servers, sessions>>
vars == <<sql, values, out, now, timers, calls, delivered,
          max, prepared, last, lastPrepare, recency,
          connected, servers, sessions>>

----------------------------------------------------------------------------
(* Bounds of the model.                                                    *)

MaxLen == 4         \* longest enumerated SQL text, in characters
MaxArgs == 2        \* longest enumerated argument list
MaxCalls == 2       \* facade calls in one run
MaxCapacity == 2    \* largest capacity the cache is run with
MaxPoolCalls == 3   \* calls on the slonik pool client in one run
MaxServers == 2     \* bindServer calls in one run
MaxSockets == 2     \* connections made to the listeners in one run

----------------------------------------------------------------------------
(* Values and their literals.                                              *)

Str(s) == [t |-> "str", s |-> s]
Num(s) == [t |-> "num", s |-> s]
Null == [t |-> "null", s |-> << >>]
Undefined == [t |-> "undefined", s |-> << >>]

\* The argument values the enumeration draws from: a plain string, a string
\* that itself reads as a placeholder, a string holding a quote, a number and
\* null.
Values == {Str(<<"x">>), Str(<<"$", "2">>), Str(<<"'">>), Num(<<"7">>), Null}

RECURSIVE escapeQuotes(_)
escapeQuotes(s) ==
    IF s = << >> THEN << >>
    ELSE (IF Head(s) = "'" THEN <<"'", "'">> ELSE <<Head(s)>>)
            \o escapeQuotes(Tail(s))

\* toLiteral of misc/pg-utils.ts: strings quoted with their quotes doubled,
\* numbers unquoted, null (and a missing value) as the keyword.
toLiteral(val) ==
    CASE val.t = "str" -> <<"'">> \o escapeQuotes(val.s) \o <<"'">>
      [] val.t = "num" -> val.s
      [] OTHER -> <<"n", "u", "l", "l">>

----------------------------------------------------------------------------
(* The regular expression /\$(\d+)/g.                                      *)

DigitVal ==
    [c \in {"0", "1", "2", "3", "4", "5", "6", "7", "8", "9"} |->
        CASE c = "0" -> 0 [] c = "1" -> 1 [] c = "2" -> 2 [] c = "3" -> 3
          [] c = "4" -> 4 [] c = "5" -> 5 [] c = "6" -> 6 [] c = "7" -> 7
          [] c = "8" -> 8 [] OTHER -> 9]

IsDigit(c) == c \in DOMAIN DigitVal

\* A match of \$(\d+) starts at i: a dollar followed by at least one digit.
MatchesAt(s, i) == i < Len(s) /\ s[i] = "$" /\ IsDigit(s[i + 1])

\* \d+ taken as a single digit.
MatchEndOneDigit(s, e) == e

\* \d+ is greedy: the match that starts at i ends at the last digit of the run.
RECURSIVE MatchEnd(_, _)
MatchEnd(s, e) ==
    IF e < Len(s) /\ IsDigit(s[e + 1]) THEN MatchEnd(s, e + 1) ELSE e

\* Number.parseInt of a run of decimal digits.
RECURSIVE parseInt(_)
parseInt(istr) ==
    IF istr = << >> THEN 0
    ELSE 10 * parseInt(SubSeq(istr, 1, Len(istr) - 1))
            + DigitVal[istr[Len(istr)]]

----------------------------------------------------------------------------
(* replaceQueryArgs$                                                       *)

NoResult == [kind |-> "none", text |-> << >>, token |-> << >>]
Text(s) == [kind |-> "text", text |-> s, token |-> << >>]
\* new Error('Unmatched parameter in query ' + str)
Unmatched(str) == [kind |-> "error", text |-> << >>, token |-> str]

\* values[i]: a JavaScript array read, 0-based; outside the array it yields
\* undefined.
ArrayAt(vals, i) == IF i >= 0 /\ i < Len(vals) THEN vals[i + 1] ELSE Undefined

\* values[i] read in place of values[i - 1].
ArgForOffByOne(vals, i) == ArrayAt(vals, i)

\* The value the callback reads for placeholder number i.
ArgFor(vals, i) == ArrayAt(vals, i - 1)

\* The callback's test of the placeholder number against the argument count.
IsUnmatched(i, vals) == i > Len(vals)

\* String.prototype.replace with a global pattern and a callback: one pass from
\* left to right over the original text; the text between matches is copied,
\* each match is replaced by what the callback returns for it, and the first
\* callback that throws ends the call.
RECURSIVE replaceFrom(_, _, _, _)
replaceFrom(s, vals, pos, acc) ==
    IF pos > Len(s) THEN Text(acc)
    ELSE IF MatchesAt(s, pos) THEN
        LET e == MatchEnd(s, pos + 1)
            str == SubSeq(s, pos, e)
            i == parseInt(SubSeq(s, pos + 1, e))
        IN  IF IsUnmatched(i, vals) THEN Unmatched(str)
            ELSE replaceFrom(s, vals, e + 1, acc \o toLiteral(ArgFor(vals, i)))
    ELSE replaceFrom(s, vals, pos + 1, Append(acc, s[pos]))

replaceQueryArgs(s, vals) == replaceFrom(s, vals, 1, << >>)

----------------------------------------------------------------------------
(* The cache of prepared statements: new lru({max: 1000, maxAge: 5000}).   *)
(* The model runs it at every capacity from 1 to MaxCapacity in place of   *)
(* 1000; the age limit is the program's, in milliseconds.                  *)

maxAge == 5000

\* The statement names and texts the calls draw from: the empty text, a text
\* without placeholder and one with a placeholder.
Names == {"a", "b", "c"}
SqlTexts == {<< >>, <<"a">>, <<"$", "1">>}

Entry(key, value, t) == [key |-> key, value |-> value, now |-> t]
Keys(cache) == {cache[k].key : k \in 1..Len(cache)}
IndexOf(cache, key) == CHOOSE k \in 1..Len(cache) : cache[k].key = key
Without(cache, key) ==
    LET k == IndexOf(cache, key)
    IN  SubSeq(cache, 1, k - 1) \o SubSeq(cache, k + 1, Len(cache))

\* isStale: an entry is stale once it is older than the age limit (a limit of
\* 0 means none).
IsStale(hit, t) == maxAge # 0 /\ t - hit.now > maxAge

\* trim: while the cache holds more than its capacity, drop from the tail.
LruTrim(cache, cap) == IF Len(cache) > cap THEN SubSeq(cache, 1, cap) ELSE cache

\* set(key, value): an entry of that key is overwritten, with its age reset,
\* and moved to the head; a new key is added at the head; then trim.
LruSet(cache, key, value, t, cap) ==
    IF key \in Keys(cache)
    THEN LruTrim(<<Entry(key, value, t)>> \o Without(cache, key), cap)
    ELSE LruTrim(<<Entry(key, value, t)>> \o cache, cap)

Miss(cache) == [found |-> FALSE, value |-> << >>, cache |-> cache]
Hit(value, cache) == [found |-> TRUE, value |-> value, cache |-> cache]

\* get(key) (doUse) and peek(key) (not doUse): a stale entry is deleted and not
\* returned; a live one is returned and, on get, moved to the head, its age
\* reset only under updateAgeOnGet.
LruGet(cache, key, t, doUse, updateAgeOnGet) ==
    IF key \notin Keys(cache) THEN Miss(cache)
    ELSE LET hit == cache[IndexOf(cache, key)]
         IN  IF IsStale(hit, t) THEN Miss(Without(cache, key))
             ELSE IF ~doUse THEN Hit(hit.value, cache)
             ELSE Hit(hit.value,
                      <<IF updateAgeOnGet THEN Entry(key, hit.value, t) ELSE hit>>
                          \o Without(cache, key))

\* What the last prepareSync or executeSync saw.
\*   entry    executeSync: the entry of that name before the lookup
\*   prepAt   executeSync: when the name was last prepared (-1: never), with
\*   prepSql  the text of that prepare, and
\*   used     whether the name was looked up since
\*   outcome  "stored", or what executeSync returned or threw
\*   called   executeSync: whether querySync was called, with
\*   sqlArg   the text it was given
\* What the last operation on the cache was and did. cb, cbCalls and promise
\* are those of an asynchronous operation. known, size and lru are the cache
\* it found: whether it held the name, how many entries it held, and its least
\* recently used name; evicted are the names it dropped; prepAt, prepSql and
\* used are the last prepare of the name, as the operation found it.
NoOp ==
    [op |-> "none", name |-> "", sql |-> << >>, at |-> 0, outcome |-> "none",
     called |-> FALSE, sqlArg |-> << >>, cb |-> FALSE, cbCalls |-> << >>,
     promise |-> "none", known |-> FALSE, size |-> 0, lru |-> "",
     evicted |-> {}, prepAt |-> -1, prepSql |-> << >>, used |-> FALSE]

Never == [at |-> -1, sql |-> << >>, used |-> FALSE]

\* The state of what a specification does not use.
EnvIdle == connected = FALSE /\ servers = << >> /\ sessions = << >>
LoopIdle == now = 0 /\ timers = << >> /\ calls = << >> /\ delivered = << >>
CacheIdle ==
    /\ max = MaxCapacity /\ prepared = << >> /\ last = NoOp
    /\ lastPrepare = [n \in Names |-> Never] /\ recency = << >>

----------------------------------------------------------------------------
(* The specification of the substitution alone: every text and argument    *)
(* list within the bounds, and the example of the documentation.           *)

Chars == {"$", "0", "1", "2", "a"}

SeqsUpTo(S, n) == UNION {[1..k -> S] : k \in 0..n}

\* "select * from t where a = $1 and b = $1"
ExampleSql ==
    <<"s", "e", "l", "e", "c", "t", " ", "*", " ", "f", "r", "o", "m", " ",
      "t", " ", "w", "h", "e", "r", "e", " ", "a", " ", "=", " ", "$", "1",
      " ", "a", "n", "d", " ", "b", " ", "=", " ", "$", "1">>

SubstInit ==
    /\ \/ sql \in SeqsUpTo(Chars, MaxLen) /\ values \in SeqsUpTo(Values, MaxArgs)
       \/ sql = ExampleSql /\ values \in SeqsUpTo(Values, 1)
    /\ out = NoResult
    /\ LoopIdle
    /\ EnvIdle
    /\ CacheIdle

Substitute ==
    /\ out = NoResult
    /\ out' = replaceQueryArgs(sql, values)
    /\ UNCHANGED <<sql, values>>
    /\ UNCHANGED envVars
    /\ UNCHANGED loopVars
    /\ UNCHANGED cacheVars

SubstNext == Substitute

SpecSubst == SubstInit /\ [][SubstNext]_vars

----------------------------------------------------------------------------
(* What the claims about the substitution speak of: the placeholder tokens *)
(* of a text, by position.                                                 *)

\* The positions where a token $<digits> starts. Tokens cannot overlap: after
\* its dollar a token holds digits only.
TokenStarts(s) == {i \in 1..Len(s) : MatchesAt(s, i)}
TokenEnd(s, i) == MatchEnd(s, i + 1)
TokenText(s, i) == SubSeq(s, i, TokenEnd(s, i))
TokenIndex(s, i) == parseInt(SubSeq(s, i + 1, TokenEnd(s, i)))
InToken(s, p) == \E i \in TokenStarts(s) : i <= p /\ p <= TokenEnd(s, i)

InRange(s, vals, i) == TokenIndex(s, i) >= 1 /\ TokenIndex(s, i) <= Len(vals)

\* How many characters of the result stand for position p of the text: one for
\* a character outside every token, the literal of argument[k-1] for the start
\* of a token $k within range, none for the rest of a token. (For a token $0,
\* about which the claim says nothing, the width is that of the keyword the
\* code puts there.)
Width(s, vals, p) ==
    IF p \in TokenStarts(s) THEN
        IF InRange(s, vals, p) THEN Len(toLiteral(vals[TokenIndex(s, p)]))
        ELSE Len(toLiteral(Undefined))
    ELSE IF InToken(s, p) THEN 0
    ELSE 1

\* Where in the result the image of position p starts.
RECURSIVE OutPos(_, _, _)
OutPos(s, vals, p) ==
    IF p = 1 THEN 1 ELSE OutPos(s, vals, p - 1) + Width(s, vals, p - 1)

\* "select * from t where a = 'x' and b = 'x'"
ExampleOut ==
    <<"s", "e", "l", "e", "c", "t", " ", "*", " ", "f", "r", "o", "m", " ",
      "t", " ", "w", "h", "e", "r", "e", " ", "a", " ", "=", " ", "'", "x", "'",
      " ", "a", "n", "d", " ", "b", " ", "=", " ", "'", "x", "'">>

\* C1: with N >= 1 arguments, a text all of whose tokens $k have 1 <= k <= N is
\* substituted without error; in every result each token $k with 1 <= k <= N
\* stands replaced by toLiteral(argument[k-1]), the position being that of the
\* original argument list (so two occurrences of $k give the same literal),
\* every character outside the tokens is kept in place, and nothing else is
\* added; the example of the documentation yields its documented result.
C1_SubstitutesByPosition ==
    (out # NoResult /\ Len(values) >= 1) =>
        /\ (\A i \in TokenStarts(sql) : InRange(sql, values, i)) => out.kind = "text"
        /\ out.kind = "text" =>
            /\ Len(out.text) = OutPos(sql, values, Len(sql) + 1) - 1
            /\ \A p \in 1..Len(sql) :
                /\ ~InToken(sql, p) => out.text[OutPos(sql, values, p)] = sql[p]
                /\ (p \in TokenStarts(sql) /\ InRange(sql, values, p)) =>
                     LET lit == toLiteral(values[TokenIndex(sql, p)])
                         at == OutPos(sql, values, p)
                     IN  SubSeq(out.text, at, at + Len(lit) - 1) = lit
        /\ (sql = ExampleSql /\ values = <<Str(<<"x">>)>>) => out = Text(ExampleOut)

\* The documented example has been substituted: one argument, the same token twice.
C1_Witness ==
    /\ sql = ExampleSql /\ values = <<Str(<<"x">>)>>
    /\ out = Text(ExampleOut)
    /\ Cardinality(TokenStarts(sql)) = 2

\* C2 (as claimed): with an empty argument list the substitution returns the
\* text as it was given, $-tokens included, and raises no error.
C2_EmptyArgsVerbatim ==
    (out # NoResult /\ values = << >>) => out = Text(sql)

\* C3 (as claimed): with N >= 1 arguments, a text holding the token $0 or a
\* token $k with k > N fails with an error that names an offending token, and
\* no text is produced.
C3_OutOfRangeFails ==
    LET bad == {i \in TokenStarts(sql) : ~InRange(sql, values, i)}
    IN  (out # NoResult /\ Len(values) >= 1 /\ bad # {}) =>
            /\ out.kind = "error"
            /\ \E i \in bad : out.token = TokenText(sql, i)

----------------------------------------------------------------------------
(* The event loop: timeoutOrImmediate and delay of utils.ts set a timer    *)
(* that is due after the given number of milliseconds; the loop runs the   *)
(* due timers one per turn, the earliest due first and, among equals, the  *)
(* one set first. A turn takes no time on the clock.                       *)

Timer(id, ms) == [call |-> id, due |-> now + ms]

\* The timer the loop runs next.
NextTimer ==
    CHOOSE k \in 1..Len(timers) :
        \A j \in 1..Len(timers) :
            \/ timers[k].due < timers[j].due
            \/ timers[k].due = timers[j].due /\ k <= j

RemoveAt(seq, k) == SubSeq(seq, 1, k - 1) \o SubSeq(seq, k + 1, Len(seq))

TimerDue == timers # << >> /\ timers[NextTimer].due <= now

\* Time passes while a timer is pending and none is due. (With no timer
\* pending nothing of the model reads the clock before the next call.)
Tick ==
    /\ timers # << >>
    /\ ~TimerDue
    /\ now' = now + 1
    /\ UNCHANGED <<timers, calls, delivered>>
    /\ UNCHANGED substVars
    /\ UNCHANGED envVars
    /\ UNCHANGED cacheVars

----------------------------------------------------------------------------
(* createPg: the node-postgres facade MemPg.                               *)

\* The latencies (queryLatency, in milliseconds) the facades are made with.
Latencies == {0, 1, 2}

\* The texts and argument lists the facade calls draw from: a text without
\* placeholder, one whose placeholder a single argument matches, one whose
\* placeholder it does not.
QueryTexts == {<<"a">>, <<"$", "1">>, <<"$", "2">>}
\* An argument of a call: absent, a function, or an array.
NoValues == [is |-> "none", list |-> << >>]
Fn == [is |-> "fn", list |-> << >>]
Array(list) == [is |-> "array", list |-> list]
ValueArrays == {Array(<< >>), Array(<<Str(<<"x">>)>>)}

\* The first argument of query(): a text, or a descriptor {text, values,
\* rowMode, types} (its text is drawn apart).
StringQuery ==
    [shape |-> "string", values |-> NoValues, rowMode |-> FALSE, typeParser |-> FALSE]
Descriptors ==
    {StringQuery} \cup
    [shape : {"object"}, values : {NoValues} \cup ValueArrays,
     rowMode : BOOLEAN, typeParser : BOOLEAN]

\* What a caller has seen of one call.
\*   ret      what the call expression gave: "null", "promise", or "threw"
\*   thrown   the exception thrown out of the call, or "none"
\*   cbCalls  the invocations of the callback, each by what it was given
\*   promise  "none", "pending", "resolved" or "rejected"
\*   outcome  what the deferred continuation is to deliver (pg.query)
\*   ran      whether the Query Entry Point was called for it
\*   doneAt   the clock when the deferred continuation ran, or -1
\*   live     whether the pool client was connected when the Query Entry Point
\*            was called for it (slonik)
\*   rowMode, typeParser   whether the descriptor of a MemPg.query sets rowMode,
\*            and whether it carries types.getTypeParser
Call(api, cb, lat) ==
    [api |-> api, cb |-> cb, lat |-> lat, at |-> now, ret |-> "null",
     thrown |-> "none", cbCalls |-> << >>, promise |-> "none",
     outcome |-> "none", ran |-> FALSE, doneAt |-> -1,
     name |-> "", text |-> << >>, vals |-> << >>,
     rowMode |-> FALSE, typeParser |-> FALSE, live |-> FALSE]

\* The delay the deferred continuation of MemPg.query is given.
QueryDelayNone(queryLatency) == 0

\* queryLatency ?? 0, for a configured latency.
QueryDelay(queryLatency) == queryLatency

Adapted(text) == [kind |-> "query", text |-> text, err |-> "none"]
Throws(err) == [kind |-> "throw", text |-> << >>, err |-> err]

\* MemPg.adaptQuery. shape is "string" or "object"; dvalues, typeParser are the
\* descriptor's values and types.getTypeParser; vals is the array argument of
\* query(), or NoValues.
adaptQuery(shape, text, dvalues, typeParser, vals) ==
    LET qvalues == IF shape = "string" THEN vals
                   ELSE IF dvalues.is = "array" THEN dvalues ELSE vals
    IN  IF qvalues.is # "array" \/ Len(qvalues.list) = 0 THEN Adapted(text)
        ELSE IF typeParser THEN Throws("NotSupported")
        ELSE LET r == replaceQueryArgs(text, qvalues.list)
             IN  IF r.kind = "error" THEN Throws("Unmatched")
                 ELSE Adapted(r.text)

\* MemPg.adaptResults: what becomes of the engine's result.
adaptResults(rowMode) == IF rowMode THEN "NotSupported" ELSE "result"

\* MemPg.query(query, valuesOrCallback, callback) of a facade made with latency
\* lat. arg2 is absent, a function or an array; arg3 is absent or a function; engineOk is
\* whether the Query Entry Point returns (or throws).
PgQuery ==
    /\ Len(calls) < MaxCalls
    /\ \E lat \in Latencies, query \in Descriptors, text \in QueryTexts,
          arg2 \in {NoValues, Fn} \cup ValueArrays, arg3 \in {NoValues, Fn} :
        /\ LET vals == IF arg2.is = "array" THEN arg2 ELSE NoValues
               cb == arg3 = Fn \/ (arg3 = NoValues /\ arg2 = Fn)
               pgquery == adaptQuery(query.shape, text, query.values,
                                     query.typeParser, vals)
               id == Len(calls) + 1
               c == [Call("pg.query", cb, lat) EXCEPT
                        !.rowMode = query.rowMode, !.typeParser = query.typeParser]
           IN  IF pgquery.kind = "throw" THEN
                   /\ calls' = Append(calls,
                        [c EXCEPT !.ret = "threw", !.thrown = pgquery.err])
                   /\ UNCHANGED timers
               ELSE
                   /\ \E engineOk \in BOOLEAN :
                        calls' = Append(calls,
                            [c EXCEPT !.ret = IF cb THEN "null" ELSE "promise",
                                      !.promise = IF cb THEN "none" ELSE "pending",
                                      !.ran = TRUE,
                                      !.outcome = IF engineOk THEN adaptResults(query.rowMode)
                                                  ELSE "EngineError"])
                   /\ timers' = Append(timers, Timer(id, QueryDelay(lat)))
    /\ UNCHANGED <<now, delivered>>
    /\ UNCHANGED substVars
    /\ UNCHANGED envVars
    /\ UNCHANGED cacheVars

\* MemPg.connect(callback) and MemPg.end(callback).
PgConnectOrEnd ==
    /\ Len(calls) < MaxCalls
    /\ \E lat \in Latencies, api \in {"pg.connect", "pg.end"}, cb \in BOOLEAN :
        LET c == Call(api, cb, lat)
        IN  calls' = Append(calls,
                IF cb THEN [c EXCEPT !.ret = "null", !.cbCalls = <<"result">>,
                                     !.doneAt = now]
                ELSE [c EXCEPT !.ret = "promise", !.promise = "resolved",
                               !.doneAt = now])
    /\ delivered' = Append(delivered, Len(calls) + 1)
    /\ UNCHANGED <<now, timers>>
    /\ UNCHANGED substVars
    /\ UNCHANGED envVars
    /\ UNCHANGED cacheVars

\* The deferred continuation of MemPg.query.
PgDeliver(id) ==
    LET c == calls[id]
    IN  calls' = [calls EXCEPT ![id] =
            IF c.cb THEN [c EXCEPT !.cbCalls = Append(@, c.outcome), !.doneAt = now]
            ELSE [c EXCEPT !.promise = IF c.outcome = "result" THEN "resolved"
                                       ELSE "rejected",
                           !.doneAt = now]]

----------------------------------------------------------------------------
(* createPgNative: Client.query and Client.querySync.                      *)

\* The delay of the pg-native client: queryLatency ?? 0, then delay(queryLatency).
NativeDelay(queryLatency) == queryLatency

\* Client.querySync: what it returns or throws.
querySync(text, params, engineOk) ==
    LET r == replaceQueryArgs(text, params)
    IN  IF r.kind = "error" THEN "Unmatched"
        ELSE IF engineOk THEN "result" ELSE "EngineError"

\* Client.query(sql, b, c), up to its await: the handler is b or c when one of
\* them is a function, the parameters are b when b is an array.
NativeQuery ==
    /\ Len(calls) < MaxCalls
    /\ \E lat \in Latencies, text \in QueryTexts, b \in {NoValues, Fn} \cup ValueArrays,
          c \in {NoValues, Fn} :
        /\ LET handler == b = Fn \/ c = Fn
               params == IF b.is = "array" THEN b.list ELSE << >>
               id == Len(calls) + 1
           IN  /\ calls' = Append(calls,
                    [Call("native.query", handler, lat) EXCEPT
                        !.ret = "promise", !.promise = "pending",
                        !.text = text, !.vals = params])
               /\ timers' = Append(timers, Timer(id, NativeDelay(lat)))
    /\ UNCHANGED <<now, delivered>>
    /\ UNCHANGED substVars
    /\ UNCHANGED envVars
    /\ UNCHANGED cacheVars

\* Client.query after its await: querySync, then the handler; an exception of
\* either is caught and handed to the handler, when there is one.
NativeDeliver(id) ==
    \E engineOk \in BOOLEAN, handlerThrows \in BOOLEAN :
        LET c == calls[id]
            r == querySync(c.text, c.vals, engineOk)
            ran == replaceQueryArgs(c.text, c.vals).kind = "text"
            handed ==
                IF ~c.cb THEN << >>
                ELSE IF r # "result" THEN <<r>>
                ELSE IF handlerThrows THEN <<"result", "HandlerError">>
                ELSE <<"result">>
        IN  \* the arguments are of no use once the call is over
            calls' = [calls EXCEPT ![id] =
                [c EXCEPT !.cbCalls = handed, !.promise = "resolved",
                          !.outcome = r, !.ran = ran, !.doneAt = now,
                          !.text = << >>, !.vals = << >>]]

\* One turn of the loop: the next due timer runs its continuation.
FireTimer ==
    /\ TimerDue
    /\ LET k == NextTimer
           id == timers[k].call
       IN  /\ timers' = RemoveAt(timers, k)
           /\ delivered' = Append(delivered, id)
           /\ IF calls[id].api = "pg.query" THEN PgDeliver(id)
              ELSE NativeDeliver(id)
    /\ UNCHANGED now
    /\ UNCHANGED substVars
    /\ UNCHANGED envVars
    /\ UNCHANGED cacheVars

FacadeInit ==
    /\ sql = << >> /\ values = << >> /\ out = NoResult
    /\ LoopIdle
    /\ EnvIdle
    /\ CacheIdle

FacadeNext ==
    \/ PgQuery
    \/ PgConnectOrEnd
    \/ NativeQuery
    \/ FireTimer
    \/ Tick

SpecFacade == FacadeInit /\ [][FacadeNext]_vars

\* The runs of queries that deliver a result: every MemPg.query and every
\* Client.query of the run comes to its result, none to an error.
PgQuerySucceeds == calls'[Len(calls')].outcome = "result"
NativeQueryMatches ==
    LET c == calls'[Len(calls')]
    IN  replaceQueryArgs(c.text, c.vals).kind = "text"
DeliversResult == \A id \in 1..Len(calls) : calls'[id].outcome \in {"none", "result"}

LatencyNext ==
    \/ PgQuery /\ PgQuerySucceeds
    \/ NativeQuery /\ NativeQueryMatches
    \/ FireTimer /\ DeliversResult
    \/ Tick

SpecLatency == FacadeInit /\ [][LatencyNext]_vars

----------------------------------------------------------------------------
(* Claims about the facades.                                               *)

CallIds == 1..Len(calls)
IsPg(id) == calls[id].api \in {"pg.query", "pg.connect", "pg.end"}
IsQuery(id) == calls[id].api \in {"pg.query", "native.query"}
Done(id) == calls[id].doneAt # -1
\* The place of a call in the order of completion.
Pos(id) == CHOOSE k \in 1..Len(delivered) : delivered[k] = id

\* C4 (as claimed): every call of MemPg.query, connect or end made with a
\* callback returns null and hands its result or its error to the callback
\* alone; every call made without one returns a promise and hands its result or
\* its error to the promise alone.
C4_DualChannel ==
    \A id \in CallIds : IsPg(id) =>
        LET c == calls[id]
        IN  /\ c.cb => (c.ret = "null" /\ c.promise = "none" /\ c.thrown = "none")
            /\ ~c.cb => (c.ret = "promise" /\ c.cbCalls = << >> /\ c.thrown = "none")

\* C5 (as claimed): no failure of MemPg.query is thrown out of query(); each
\* reaches the callback when one was given and rejects the returned promise
\* otherwise, and not before the injected latency has passed.
C5_FailuresBySameChannel ==
    \A id \in CallIds : calls[id].api = "pg.query" =>
        LET c == calls[id]
        IN  /\ c.thrown = "none"
            /\ (Done(id) /\ c.outcome # "result") =>
                /\ c.doneAt >= c.at + c.lat
                /\ IF c.cb THEN c.cbCalls = <<c.outcome>> /\ c.promise = "none"
                   ELSE c.promise = "rejected" /\ c.cbCalls = << >>

\* Whether a query has a completion to deliver (it was not thrown out of the
\* call), and whether it has delivered it: the callback invoked, or the
\* promise settled.
Deferred(id) == calls[id].thrown = "none"
Delivered(id) ==
    /\ Done(id)
    /\ \/ calls[id].cb /\ Len(calls[id].cbCalls) >= 1
       \/ ~calls[id].cb /\ calls[id].promise \in {"resolved", "rejected"}
ResultDelivered(id) == Delivered(id) /\ calls[id].outcome = "result"

\* C6: of two queries issued at the same time on the clock (so within one turn
\* of the loop), through facades with latencies L1 < L2 and in either order,
\* the one with L1 delivers its completion (callback invocation or promise
\* settlement) before the one with L2 does.
C6_LatencyOrder ==
    \A i \in CallIds, j \in CallIds :
        (/\ IsQuery(i) /\ IsQuery(j)
         /\ Deferred(i) /\ Deferred(j)
         /\ calls[i].lat < calls[j].lat
         /\ calls[i].at = calls[j].at
         /\ Done(j)) =>
            /\ Done(i)
            /\ Pos(i) < Pos(j)

\* A query with the larger latency was issued first, through the other facade
\* and in the same turn, and delivered its result second.
C6_Witness ==
    \E i \in CallIds, j \in CallIds :
        /\ i < j
        /\ calls[i].api = "native.query" /\ calls[j].api = "pg.query"
        /\ calls[i].lat > calls[j].lat /\ calls[j].lat > 0
        /\ calls[i].at = calls[j].at
        /\ ResultDelivered(i) /\ ResultDelivered(j)
        /\ Pos(j) < Pos(i)

----------------------------------------------------------------------------
(* createPgNative: prepare, prepareSync, execute, executeSync.             *)

\* The name moved to the end of the order of last use.
Touch(order, name) == SelectSeq(order, LAMBDA n : n # name) \o <<name>>

\* The order of last use, of the names still cached.
Cached(order, cache) == SelectSeq(order, LAMBDA n : n \in Keys(cache))

\* The last prepare of each name, of the names still cached.
StillCached(prepares, cache) ==
    [n \in Names |-> IF n \in Keys(cache) THEN prepares[n] ELSE Never]

\* What an operation on a name finds, and which names a cache that follows
\* has dropped.
Found(name, after) ==
    [NoOp EXCEPT !.name = name, !.at = now,
                 !.known = name \in Keys(prepared),
                 !.size = Len(prepared),
                 !.lru = IF recency = << >> THEN "" ELSE Head(recency),
                 !.evicted = Keys(prepared) \ Keys(after),
                 !.prepAt = lastPrepare[name].at,
                 !.prepSql = lastPrepare[name].sql,
                 !.used = lastPrepare[name].used]

\* prepared.get(name) without the move to the head (peek).
LookupPeek(cache, name, t) == LruGet(cache, name, t, FALSE, FALSE)

\* prepared.get(name) with the age reset on every lookup (updateAgeOnGet).
LookupRefreshing(cache, name, t) == LruGet(cache, name, t, TRUE, TRUE)

\* prepared.get(name)
Lookup(cache, name, t) == LruGet(cache, name, t, TRUE, FALSE)

\* prepared.set(name, sql)
Store(cache, name, text, t) == LruSet(cache, name, text, t, max)

\* if (!prep): nothing was returned, or an empty text.
IsMissing(r) == ~r.found \/ r.value = << >>

\* Client.prepareSync(name, sql, npar): its effect on the cache.
prepareSync(name, text) ==
    /\ prepared' = Store(prepared, name, text, now)
    /\ lastPrepare' = StillCached([lastPrepare EXCEPT ![name] =
                            [at |-> now, sql |-> text, used |-> FALSE]], prepared')
    /\ recency' = Cached(Touch(recency, name), prepared')
    /\ UNCHANGED max

\* What prepareSync leaves in the record of the last operation.
Prepared(name, text) ==
    [Found(name, Store(prepared, name, text, now)) EXCEPT
        !.op = "prepare", !.sql = text, !.outcome = "stored"]

\* Client.executeSync(name, pars): its effect on the cache.
executeSync(name) ==
    LET r == Lookup(prepared, name, now)
    IN  /\ prepared' = r.cache
        /\ lastPrepare' = StillCached(IF r.found
                                      THEN [lastPrepare EXCEPT ![name].used = TRUE]
                                      ELSE lastPrepare, prepared')
        /\ recency' = Cached(IF r.found THEN Touch(recency, name) ELSE recency,
                             prepared')
        /\ UNCHANGED max

\* What executeSync leaves in the record of the last operation: what it
\* returned or threw, and what the Query Entry Point was called with;
\* engineOk is whether the Query Entry Point returns (or throws).
Executed(name, pars, engineOk) ==
    LET r == Lookup(prepared, name, now)
    IN  [Found(name, r.cache) EXCEPT
            !.op = "execute",
            !.outcome = IF IsMissing(r) THEN "Unknown"
                        ELSE querySync(r.value, pars, engineOk),
            !.called = ~IsMissing(r),
            !.sqlArg = IF IsMissing(r) THEN << >> ELSE r.value]

PrepareSync ==
    /\ \E name \in Names, text \in SqlTexts :
        /\ prepareSync(name, text)
        /\ last' = Prepared(name, text)
    /\ UNCHANGED loopVars
    /\ UNCHANGED substVars
    /\ UNCHANGED envVars

ExecuteSync ==
    /\ \E name \in Names, pars \in {NoValues} \cup ValueArrays, engineOk \in BOOLEAN :
        /\ executeSync(name)
        /\ last' = Executed(name, IF pars.is = "array" THEN pars.list ELSE << >>,
                            engineOk)
    /\ UNCHANGED loopVars
    /\ UNCHANGED substVars
    /\ UNCHANGED envVars

\* The instants at which calls are made: the start, and the instants around
\* the age limit of an entry stored at the start.
ClockTimes == {0, maxAge, maxAge + 1}

\* The clock stops one millisecond past the age limit.
MaxClock == maxAge + 1

\* A call is made only if its continuation runs before the clock stops.
MayCall(lat) ==
    /\ Len(calls) < MaxCalls
    /\ now + lat <= MaxClock

\* Client.prepare(name, sql, npar, callback), up to its await.
Prepare ==
    /\ \E lat \in Latencies, name \in Names, text \in SqlTexts, callback \in {NoValues, Fn} :
        /\ MayCall(lat)
        /\ calls' = Append(calls,
                [Call("native.prepare", callback = Fn, lat) EXCEPT
                    !.ret = "promise", !.promise = "pending",
                    !.name = name, !.text = text])
        /\ timers' = Append(timers, Timer(Len(calls) + 1, NativeDelay(lat)))
    /\ UNCHANGED <<now, delivered>>
    /\ UNCHANGED substVars
    /\ UNCHANGED envVars
    /\ UNCHANGED cacheVars

\* Client.execute(name, a, b), up to its await: the handler is a or b when one
\* of them is a function, the parameters are a when a is an array.
Execute ==
    /\ \E lat \in Latencies, name \in Names, a \in {NoValues, Fn} \cup ValueArrays,
          b \in {NoValues, Fn} :
        /\ MayCall(lat)
        /\ calls' = Append(calls,
                [Call("native.execute", a = Fn \/ b = Fn, lat) EXCEPT
                    !.ret = "promise", !.promise = "pending",
                    !.name = name,
                    !.vals = IF a.is = "array" THEN a.list ELSE << >>])
        /\ timers' = Append(timers, Timer(Len(calls) + 1, NativeDelay(lat)))
    /\ UNCHANGED <<now, delivered>>
    /\ UNCHANGED substVars
    /\ UNCHANGED envVars
    /\ UNCHANGED cacheVars

\* A call whose continuation has run; what it did is in the record of the last
\* operation.
Settled == [Call("settled", FALSE, 0) EXCEPT !.at = 0]

\* Client.prepare after its await: prepareSync, then callback().
PrepareDeliver(id) ==
    LET c == calls[id]
    IN  /\ prepareSync(c.name, c.text)
        /\ last' = [Prepared(c.name, c.text) EXCEPT
                        !.cb = c.cb,
                        !.cbCalls = IF c.cb THEN <<"result">> ELSE << >>,
                        !.promise = IF c.cb THEN "resolved" ELSE "rejected"]
        /\ calls' = [calls EXCEPT ![id] = Settled]

\* Client.execute after its await: executeSync, then the handler; an exception
\* of either is handed to the handler.
ExecuteDeliver(id) ==
    \E engineOk \in BOOLEAN, handlerThrows \in BOOLEAN :
        LET c == calls[id]
            e == Executed(c.name, c.vals, engineOk)
        IN  /\ executeSync(c.name)
            /\ last' = [e EXCEPT
                    !.cb = c.cb,
                    !.cbCalls =
                        IF ~c.cb THEN << >>
                        ELSE IF e.outcome # "result" THEN <<e.outcome>>
                        ELSE IF handlerThrows THEN <<"result", "HandlerError">>
                        ELSE <<"result">>,
                    !.promise = IF c.cb THEN "resolved" ELSE "rejected"]
            /\ calls' = [calls EXCEPT ![id] = Settled]

\* One turn of the loop: the next due timer runs the continuation of a prepare
\* or of an execute.
FirePrepared ==
    /\ TimerDue
    /\ LET k == NextTimer
           id == timers[k].call
       IN  /\ timers' = RemoveAt(timers, k)
           /\ delivered' = Append(delivered, id)
           /\ IF calls[id].api = "native.prepare" THEN PrepareDeliver(id)
              ELSE ExecuteDeliver(id)
    /\ UNCHANGED now
    /\ UNCHANGED substVars
    /\ UNCHANGED envVars

\* Time passes between calls, up to one of the instants around the age limit.
Advance ==
    /\ timers = << >>
    /\ \E t \in ClockTimes : now < t /\ now' = t
    /\ UNCHANGED <<timers, calls, delivered>>
    /\ UNCHANGED substVars
    /\ UNCHANGED envVars
    /\ UNCHANGED cacheVars

PreparedInit ==
    /\ sql = << >> /\ values = << >> /\ out = NoResult
    /\ LoopIdle
    /\ EnvIdle
    /\ max \in 1..MaxCapacity
    /\ prepared = << >> /\ last = NoOp
    /\ lastPrepare = [n \in Names |-> Never] /\ recency = << >>

\* The cache under the synchronous calls alone.
PreparedNext ==
    \/ PrepareSync
    \/ ExecuteSync
    \/ Advance

SpecPrepared == PreparedInit /\ [][PreparedNext]_vars

\* The synchronous and the asynchronous calls together, on a cache of one
\* entry, with two names, with an empty and a non-empty text, with a latency
\* of at most a millisecond, and one asynchronous call in flight at a time.
FewNames == {"a", "b"}
FewTexts == {<< >>, <<"a">>}
OnFew == last'.name \in FewNames /\ last'.sql \in FewTexts
CallsFew ==
    LET c == calls'[Len(calls')]
    IN  c.name \in FewNames /\ c.text \in FewTexts /\ c.lat <= 1 /\ timers = << >>

ExecuteInit == PreparedInit /\ max = 1

ExecuteNext ==
    \/ PrepareSync /\ OnFew
    \/ ExecuteSync /\ OnFew
    \/ Prepare /\ CallsFew
    \/ Execute /\ CallsFew
    \/ FirePrepared
    \/ Tick
    \/ Advance

SpecExecute == ExecuteInit /\ [][ExecuteNext]_vars

\* The asynchronous calls alone, any number of them in flight, through one
\* facade (the calls in flight have its latency), on a cache that holds every
\* name in use: nothing is evicted, and nothing expires within the latencies.
FlowCalls ==
    LET c == calls'[Len(calls')]
    IN  /\ c.name \in FewNames /\ c.text \in FewTexts
        /\ \A k \in 1..Len(timers) : calls[timers[k].call].lat = c.lat

FlowInit == PreparedInit /\ max = MaxCapacity

FlowNext ==
    \/ Prepare /\ FlowCalls
    \/ Execute /\ FlowCalls
    \/ FirePrepared
    \/ Tick

SpecFlow == FlowInit /\ [][FlowNext]_vars

----------------------------------------------------------------------------
(* Claims about the cache of prepared statements.                          *)

EntryOf(name) == prepared[IndexOf(prepared, name)]

\* C7: a prepare always succeeds (the name is cached with its text
\* afterwards), the cache never holds more than its capacity, and a prepare
\* drops a name exactly when it finds the cache full and the name new, and
\* then exactly the least recently used name, the order of use being that of
\* prepares and of lookups.
C7_CapacityAndLru ==
    /\ Len(prepared) <= max
    /\ last.op = "prepare" =>
        /\ last.outcome = "stored"
        /\ last.name \in Keys(prepared)
        /\ EntryOf(last.name).value = last.sql
        /\ last.evicted = IF last.size >= max /\ ~last.known
                          THEN {last.lru} ELSE {}

\* A cache of two entries, full with "a" and "b", of which "a" has been looked
\* up: the prepare of "c" drops "b".
C7_Witness ==
    /\ max = 2
    /\ last.op = "prepare" /\ last.name = "c" /\ last.evicted = {"b"}
    /\ Keys(prepared) = {"a", "c"}
    /\ lastPrepare["a"].used /\ lastPrepare["a"].sql # << >>

\* C8: a lookup more than maxAge after the last prepare of its name signals
\* not-found (to the caller of executeSync, to the handler of execute) without
\* a query of the engine, whether the entry was looked up in between or not;
\* and the passing of time alone changes no call, no cache and no result.
C8_ExpiredNotFound ==
    /\ [](last.op = "execute" /\ last.prepAt # -1 /\ last.at - last.prepAt > maxAge
            => /\ last.outcome = "Unknown"
               /\ ~last.called
               /\ last.cb => last.cbCalls = <<"Unknown">>)
    /\ [][now' # now => UNCHANGED <<calls, delivered, prepared, last>>]_vars

\* An execute with a handler, after the age limit of an entry that was looked
\* up in between.
C8_Witness ==
    /\ last.op = "execute" /\ last.cb
    /\ last.prepAt # -1 /\ last.at - last.prepAt > maxAge
    /\ last.used /\ last.prepSql # << >>
    /\ last.cbCalls = <<"Unknown">>

\* C9: an execute of a cached name within its age limit runs the text of the
\* last prepare of the name; a prepare of a cached name drops no name and
\* leaves the number of entries; and every cached entry holds the text and the
\* time of the last prepare of its name.
C9_LastWriteWins ==
    /\ last.op = "execute" /\ last.known /\ last.at - last.prepAt <= maxAge
        => last.called /\ last.sqlArg = last.prepSql
    /\ last.op = "prepare" /\ last.known
        => last.evicted = {} /\ Len(prepared) = last.size
    /\ \A i \in 1..Len(prepared) :
        /\ prepared[i].value = lastPrepare[prepared[i].key].sql
        /\ prepared[i].now = lastPrepare[prepared[i].key].at

\* C10: an execute signals not-found exactly when its name is not cached or is
\* past its age limit, and then without a query of the engine; in every other
\* case the engine is queried with the stored text.
C10_NotFoundExactly ==
    last.op = "execute" =>
        LET missing == ~last.known \/ last.at - last.prepAt > maxAge
        IN  /\ last.outcome = "Unknown" <=> missing
            /\ missing => /\ ~last.called
                          /\ last.cb => last.cbCalls = <<"Unknown">>
            /\ ~missing => last.called /\ last.sqlArg = last.prepSql

----------------------------------------------------------------------------
(* Further claims about the facades MemPg and pg-native Client.            *)

\* C11 (as claimed): every MemPg.query whose descriptor sets rowMode or carries
\* types.getTypeParser fails with NotSupported, with or without argument
\* values, and none delivers a successful result.
C11_UnsupportedRejected ==
    \A id \in CallIds :
        (calls[id].api = "pg.query" /\ (calls[id].rowMode \/ calls[id].typeParser)) =>
            /\ \/ calls[id].thrown = "NotSupported"
               \/ calls[id].thrown = "none" /\ calls[id].outcome = "NotSupported"
            /\ ~ResultDelivered(id)

\* C14 (as claimed): the completion of connect, query and end of a facade with
\* latency L is delivered no sooner than L after the call, and never within
\* the call itself, whatever L.
C14_LatencyUniform ==
    /\ [](\A id \in CallIds :
            (calls[id].api \in {"pg.connect", "pg.end", "pg.query", "native.query"}
                /\ Done(id)) => calls[id].doneAt >= calls[id].at + calls[id].lat)
    /\ [][\A id \in 1..Len(calls') :
            id > Len(calls) => calls'[id].doneAt = -1]_vars

\* C15 (as claimed): a MemPg.query issued after an end() has completed neither
\* calls the Query Entry Point nor comes to a result. (MemPg keeps no state of
\* its own: any two calls through a facade of one latency may be calls on one
\* client.)
C15_ClosedRejects ==
    \A i \in CallIds, j \in CallIds :
        (/\ i < j
         /\ calls[i].api = "pg.end" /\ Done(i)
         /\ calls[j].api = "pg.query"
         /\ calls[j].lat = calls[i].lat
         /\ calls[j].at >= calls[i].doneAt) =>
            /\ ~calls[j].ran
            /\ calls[j].outcome # "result"

\* C18 (as claimed): a call of MemPg.query or Client.query that was given a
\* callback and is over (thrown out of, or its continuation run) has invoked
\* the callback exactly once; so has an execute that was given a handler.
C18_CallbackOnce ==
    /\ \A id \in CallIds :
        (/\ calls[id].api \in {"pg.query", "native.query"}
         /\ calls[id].cb
         /\ (Done(id) \/ calls[id].thrown # "none")) =>
            Len(calls[id].cbCalls) = 1
    /\ (last.op = "execute" /\ last.cb) => Len(last.cbCalls) = 1

\* C19 (as claimed): for a MemPg.query that ends in NotSupported or in a
\* substitution error the Query Entry Point was not called.
C19_RejectedLeavesEngine ==
    \A id \in CallIds :
        (/\ calls[id].api = "pg.query"
         /\ \/ calls[id].thrown \in {"NotSupported", "Unmatched"}
            \/ calls[id].outcome = "NotSupported") =>
            ~calls[id].ran

----------------------------------------------------------------------------
(* A further claim about the substitution, stated on the text itself: the  *)
(* placeholders of a text are its dollars followed by a digit, each with   *)
(* the whole run of digits that follows it.                                *)

Placeholders(s) == {i \in 1..Len(s) - 1 : s[i] = "$" /\ IsDigit(s[i + 1])}
\* The last digit of the run of digits that starts at i.
DigitRunEnd(s, i) ==
    CHOOSE j \in i..Len(s) :
        /\ \A k \in i..j : IsDigit(s[k])
        /\ j = Len(s) \/ ~IsDigit(s[j + 1])
PlaceholderText(s, i) == SubSeq(s, i, DigitRunEnd(s, i + 1))
PlaceholderIndex(s, i) == parseInt(SubSeq(s, i + 1, DigitRunEnd(s, i + 1)))
PlaceholderLiteral(s, vals, i) == toLiteral(ArrayAt(vals, PlaceholderIndex(s, i) - 1))
Dollars(s) == Cardinality({p \in 1..Len(s) : s[p] = "$"})

\* By how much the placeholders of S lengthen the text, and how many dollars
\* their literals hold.
RECURSIVE Growth(_, _, _)
Growth(s, vals, S) ==
    IF S = {} THEN 0
    ELSE LET i == CHOOSE x \in S : TRUE
         IN  Len(PlaceholderLiteral(s, vals, i)) - Len(PlaceholderText(s, i))
                + Growth(s, vals, S \ {i})
RECURSIVE LiteralDollars(_, _, _)
LiteralDollars(s, vals, S) ==
    IF S = {} THEN 0
    ELSE LET i == CHOOSE x \in S : TRUE
         IN  Dollars(PlaceholderLiteral(s, vals, i)) + LiteralDollars(s, vals, S \ {i})

\* C20: the substitution is one pass over the original text with placeholders
\* of maximal digit runs. The first placeholder, from the left, whose whole
\* number exceeds the argument count fails the call and is named whole ($10
\* is number 10); otherwise the result has the length of the text with each
\* placeholder exchanged for its literal, and holds the dollars of the text
\* outside placeholders and those of the literals, none of which was taken for
\* a placeholder: "$1" with the arguments "$2", "x" gives '$2'.
C20_SinglePassMaximalTokens ==
    out # NoResult =>
        LET all == Placeholders(sql)
            bad == {i \in all : PlaceholderIndex(sql, i) > Len(values)}
        IN  /\ bad # {} =>
                LET m == CHOOSE i \in bad : \A j \in bad : i <= j
                IN  out = Unmatched(PlaceholderText(sql, m))
            /\ bad = {} =>
                /\ out.kind = "text"
                /\ Len(out.text) = Len(sql) + Growth(sql, values, all)
                /\ Dollars(out.text) =
                        Dollars(sql) - Cardinality(all) + LiteralDollars(sql, values, all)
            /\ (sql = <<"$", "1">> /\ values = <<Str(<<"$", "2">>), Str(<<"x">>)>>)
                    => out = Text(<<"'", "$", "2", "'">>)

\* The literal of the first argument reads as the second placeholder and has
\* been inserted as it is.
C20_Witness ==
    /\ sql = <<"$", "1">> /\ values = <<Str(<<"$", "2">>), Str(<<"x">>)>>
    /\ out = Text(<<"'", "$", "2", "'">>)

----------------------------------------------------------------------------
(* The flow prepare, then execute, of the pg-native client.                *)

\* C16 (as claimed), in runs without eviction, expiry or synchronous calls.
\* A prepare that has called back has stored its entry. When an execute has
\* run, no prepare of its name issued before it is still waiting; so if a
\* prepare of the name was issued before it, the text of the last of them is
\* stored, and then the execute has found it, has queried the engine with it
\* as query would, and has handed the outcome to its handler.
C16_PrepareThenExecute ==
    /\ (last.op = "prepare" /\ last.cbCalls # << >>) =>
            /\ last.name \in Keys(prepared)
            /\ EntryOf(last.name).value = last.sql
    /\ (last.op = "execute" /\ delivered # << >>) =>
            /\ \A i \in 1..(delivered[Len(delivered)] - 1) :
                    ~(calls[i].api = "native.prepare" /\ calls[i].name = last.name)
            /\ last.prepAt # -1 =>
                    /\ last.called
                    /\ last.sqlArg = last.prepSql
                    /\ last.outcome # "Unknown"
                    /\ last.cb => Head(last.cbCalls) = last.outcome

----------------------------------------------------------------------------
(* createSlonik: the pool client of the driver factory.                    *)

DiscardAll == <<"D", "I", "S", "C", "A", "R", "D", " ", "A", "L", "L">>
PoolTexts == QueryTexts \cup {DiscardAll}

\* opts?.queryLatency ?? 0
PoolDelay(queryLatency) == queryLatency

\* A call on the pool client: an async function, which returns a promise. The
\* pool has one latency.
PoolCall(api, lat) ==
    [Call(api, FALSE, lat) EXCEPT !.ret = "promise", !.promise = "pending"]
PoolLatency(lat) == \A id \in 1..Len(calls) : calls[id].lat = lat

\* connect(), up to its await.
SlonikConnect ==
    /\ Len(calls) < MaxPoolCalls
    /\ \E lat \in Latencies :
        /\ PoolLatency(lat)
        /\ calls' = Append(calls, PoolCall("slonik.connect", lat))
        /\ timers' = Append(timers, Timer(Len(calls) + 1, PoolDelay(lat)))
    /\ UNCHANGED <<now, delivered>>
    /\ UNCHANGED <<connected, servers, sessions>>
    /\ UNCHANGED substVars
    /\ UNCHANGED cacheVars

\* end(), up to its await.
SlonikEnd ==
    /\ Len(calls) < MaxPoolCalls
    /\ \E lat \in Latencies :
        /\ PoolLatency(lat)
        /\ calls' = Append(calls, PoolCall("slonik.end", lat))
        /\ timers' = Append(timers, Timer(Len(calls) + 1, PoolDelay(lat)))
    /\ UNCHANGED <<now, delivered>>
    /\ UNCHANGED <<connected, servers, sessions>>
    /\ UNCHANGED substVars
    /\ UNCHANGED cacheVars

\* query(sql, args), up to its await: rejected when the client is not
\* connected, answered with no rows for DISCARD ALL, and deferred otherwise.
SlonikQuery ==
    /\ Len(calls) < MaxPoolCalls
    /\ \E lat \in Latencies, text \in PoolTexts, args \in ValueArrays :
        LET c == PoolCall("slonik.query", lat)
            id == Len(calls) + 1
        IN  /\ PoolLatency(lat)
            /\ IF ~connected THEN
                    /\ calls' = Append(calls,
                            [c EXCEPT !.promise = "rejected", !.outcome = "NotConnected",
                                      !.doneAt = now])
                    /\ delivered' = Append(delivered, id)
                    /\ UNCHANGED timers
               ELSE IF text = DiscardAll THEN
                    /\ calls' = Append(calls,
                            [c EXCEPT !.promise = "resolved", !.outcome = "norows",
                                      !.doneAt = now])
                    /\ delivered' = Append(delivered, id)
                    /\ UNCHANGED timers
               ELSE
                    /\ calls' = Append(calls,
                            [c EXCEPT !.text = text, !.vals = args.list])
                    /\ timers' = Append(timers, Timer(id, PoolDelay(lat)))
                    /\ UNCHANGED delivered
    /\ UNCHANGED now
    /\ UNCHANGED <<connected, servers, sessions>>
    /\ UNCHANGED substVars
    /\ UNCHANGED cacheVars

\* connect() and end() after their await: the flag is set and the promise
\* resolves.
SlonikSwitch(id, flag) ==
    /\ connected' = flag
    /\ calls' = [calls EXCEPT ![id] =
            [@ EXCEPT !.promise = "resolved", !.outcome = "result", !.doneAt = now]]

\* query() after its await: the substitution, then the Query Entry Point.
SlonikRun(id) ==
    LET c == calls[id]
        formatted == replaceQueryArgs(c.text, c.vals)
    IN  /\ IF formatted.kind = "error" THEN
                calls' = [calls EXCEPT ![id] =
                    [c EXCEPT !.promise = "rejected", !.outcome = "Unmatched",
                              !.doneAt = now, !.text = << >>, !.vals = << >>]]
           ELSE \E engineOk \in BOOLEAN :
                calls' = [calls EXCEPT ![id] =
                    [c EXCEPT !.ran = TRUE, !.live = connected,
                              !.promise = IF engineOk THEN "resolved" ELSE "rejected",
                              !.outcome = IF engineOk THEN "result" ELSE "EngineError",
                              !.doneAt = now, !.text = << >>, !.vals = << >>]]
        /\ UNCHANGED connected

\* One turn of the loop: the next due timer runs the continuation of a call on
\* the pool client.
SlonikFire ==
    /\ TimerDue
    /\ LET k == NextTimer
           id == timers[k].call
       IN  /\ timers' = RemoveAt(timers, k)
           /\ delivered' = Append(delivered, id)
           /\ CASE calls[id].api = "slonik.connect" -> SlonikSwitch(id, TRUE)
                [] calls[id].api = "slonik.end" -> SlonikSwitch(id, FALSE)
                [] OTHER -> SlonikRun(id)
    /\ UNCHANGED now
    /\ UNCHANGED <<servers, sessions>>
    /\ UNCHANGED substVars
    /\ UNCHANGED cacheVars

\* createPoolClient: let connected = false.
SlonikInit ==
    /\ sql = << >> /\ values = << >> /\ out = NoResult
    /\ LoopIdle
    /\ EnvIdle
    /\ CacheIdle

SlonikNext ==
    \/ SlonikConnect
    \/ SlonikEnd
    \/ SlonikQuery
    \/ SlonikFire
    \/ Tick

SpecSlonik == SlonikInit /\ [][SlonikNext]_vars

\* C17 (as claimed): whenever the Query Entry Point was called for a query of
\* the pool client, the client was connected at that moment, and no end() of
\* the client had completed before it (unless a connect() completed in
\* between).
C17_EngineOnlyWhileConnected ==
    \A j \in CallIds :
        (calls[j].api = "slonik.query" /\ calls[j].ran) =>
            /\ calls[j].live
            /\ \A i \in CallIds :
                (calls[i].api = "slonik.end" /\ Done(i) /\ Pos(i) < Pos(j)) =>
                    \E k \in CallIds :
                        /\ calls[k].api = "slonik.connect" /\ Done(k)
                        /\ Pos(i) < Pos(k) /\ Pos(k) < Pos(j)

----------------------------------------------------------------------------
(* bindServer. The listener is a net.Server: listen() either comes to      *)
(* listening, and then runs the callback it was given, or emits 'error'    *)
(* (the port is in use); a listening server emits 'connection' for each    *)
(* connection made to it until close() is called.                          *)

\* A fixed port, for opts.port; 0 asks for a port of the system's choice.
FixedPort == 5432
Ports == {0, FixedPort}
\* The port the system gives the k-th listener that asks for one.
EphemeralPort(k) == FixedPort + k
\* What srv.address() gives: an address object, nothing, or a path.
AddressKinds == {"tcp", "none", "path"}

\* One bindServer call: the port asked for, the state of its listener
\* ("starting", "listening", "failed" after 'error', "closed"), the port it is
\* bound to, the returned promise, whether the connection handler is set,
\* the connections accepted, whether close() was called and how many
\* connections had been accepted by then.
Server(port) ==
    [port |-> port, state |-> "starting", bound |-> 0, promise |-> "pending",
     handler |-> FALSE, accepted |-> 0, closeCalled |-> FALSE, atClose |-> 0]

Socket(k, n) == [server |-> k, n |-> n]
\* bindPgServer(socket, this.db.public)
Session(socket) == [socket |-> socket, entry |-> "db.public"]

\* A connection handler that attaches nothing.
OnConnectionNone(list, socket) == list

\* srv.on('connection', (socket) => { bindPgServer(socket, this.db.public) })
OnConnection(list, socket) == Append(list, Session(socket))

PortInUse(port) ==
    /\ port # 0
    /\ \E j \in 1..Len(servers) :
        servers[j].state = "listening" /\ servers[j].bound = port

\* bindServer(opts), up to the return of its promise: createServer and
\* srv.listen(port, host, callback).
BindServer ==
    /\ Len(servers) < MaxServers
    /\ \E port \in Ports : servers' = Append(servers, Server(port))
    /\ UNCHANGED <<connected, sessions>>
    /\ UNCHANGED loopVars
    /\ UNCHANGED substVars
    /\ UNCHANGED cacheVars

\* The listen of a bindServer call is over. If its port is in use the server
\* emits 'error', for which no handler is set: neither res nor rej is called.
\* Otherwise the callback runs: with an address object it sets the connection
\* handler and resolves; with none, or with a path, it closes the server and
\* rejects.
Listen ==
    /\ \E k \in 1..Len(servers) :
        /\ servers[k].state = "starting"
        /\ IF PortInUse(servers[k].port) THEN
                servers' = [servers EXCEPT ![k].state = "failed"]
           ELSE \E a \in AddressKinds :
                servers' = [servers EXCEPT ![k] =
                    IF a = "tcp" THEN
                        [@ EXCEPT !.state = "listening",
                                  !.bound = IF servers[k].port = 0 THEN EphemeralPort(k)
                                            ELSE servers[k].port,
                                  !.handler = TRUE,
                                  !.promise = "resolved"]
                    ELSE [@ EXCEPT !.state = "closed", !.promise = "rejected"]]
    /\ UNCHANGED <<connected, sessions>>
    /\ UNCHANGED loopVars
    /\ UNCHANGED substVars
    /\ UNCHANGED cacheVars

SocketsMade ==
    Cardinality({q \in {Socket(k, n) : k \in 1..Len(servers), n \in 1..MaxSockets} :
                    q.n <= servers[q.server].accepted})

\* A connection is made to a listening server: 'connection' is emitted with
\* its socket.
Connection ==
    /\ SocketsMade < MaxSockets
    /\ \E k \in 1..Len(servers) :
        /\ servers[k].state = "listening"
        /\ servers' = [servers EXCEPT ![k].accepted = @ + 1]
        /\ sessions' = IF servers[k].handler
                       THEN OnConnection(sessions, Socket(k, servers[k].accepted + 1))
                       ELSE sessions
    /\ UNCHANGED connected
    /\ UNCHANGED loopVars
    /\ UNCHANGED substVars
    /\ UNCHANGED cacheVars

\* close() of the result of a bindServer call: srv.close().
Close ==
    /\ \E k \in 1..Len(servers) :
        /\ servers[k].promise = "resolved"
        /\ servers[k].state = "listening"
        /\ servers' = [servers EXCEPT ![k] =
                [@ EXCEPT !.state = "closed", !.closeCalled = TRUE,
                          !.atClose = servers[k].accepted]]
    /\ UNCHANGED <<connected, sessions>>
    /\ UNCHANGED loopVars
    /\ UNCHANGED substVars
    /\ UNCHANGED cacheVars

BindInit ==
    /\ sql = << >> /\ values = << >> /\ out = NoResult
    /\ LoopIdle
    /\ EnvIdle
    /\ CacheIdle

BindNext ==
    \/ BindServer
    \/ Listen
    \/ Connection
    \/ Close

\* Every listen comes to an end.
SpecBind == BindInit /\ [][BindNext]_vars /\ WF_vars(Listen)

ServerIds == 1..Len(servers)
SessionsOf(socket) == {i \in 1..Len(sessions) : sessions[i].socket = socket}

BindMade(k) == Len(servers) >= k
BindSettled(k) == BindMade(k) /\ servers[k].promise # "pending"

\* C12 (as claimed): the promise of every bindServer call is settled in the
\* end; a bind whose port is in use is rejected; and the listener of a
\* rejected bind is not open.
C12_BindSettles ==
    /\ \A k \in 1..MaxServers : [](BindMade(k) => <>BindSettled(k))
    /\ [](\A k \in ServerIds :
            /\ servers[k].state = "failed" => servers[k].promise = "rejected"
            /\ servers[k].promise = "rejected" => servers[k].state # "listening")

\* C13: every connection accepted has exactly one Session, made of its socket
\* and of db.public; every Session is that of an accepted connection, so none
\* serves two sockets; connections are accepted only of a bind that has
\* resolved; and none is accepted once close() was called.
C13_OneSessionPerConnection ==
    /\ \A k \in ServerIds :
        /\ \A n \in 1..servers[k].accepted :
                Cardinality(SessionsOf(Socket(k, n))) = 1
        /\ servers[k].accepted > 0 => servers[k].promise = "resolved"
        /\ servers[k].closeCalled => servers[k].accepted = servers[k].atClose
    /\ \A i \in 1..Len(sessions) :
        /\ sessions[i].entry = "db.public"
        /\ sessions[i].socket.server \in ServerIds
        /\ sessions[i].socket.n \in 1..servers[sessions[i].socket.server].accepted
    /\ Len(sessions) = SocketsMade

\* Two connections were accepted by one listener, which was then closed.
C13_Witness ==
    \E k \in ServerIds :
        /\ servers[k].closeCalled
        /\ servers[k].accepted = 2
        /\ Len(sessions) = 2
        /\ sessions[1].socket # sessions[2].socket

=============================================================================
